---- MODULE Spec2Model ----
(***************************************************************************)
(* Model of roleChaining.py: the trust-policy evaluator                    *)
(* (get_role_permission), the permission-policy evaluator                  *)
(* (policy_allows_assume_role), the per-role policy scan (check_policies), *)
(* the discovery loop (role_chaning_check), the hop (assume_user_role)     *)
(* and the control flow of main with its exit status.                      *)
(*                                                                         *)
(* Python strings are sequences of text chunks, so that `x in s` on a      *)
(* string is a real substring test and differs from list membership.       *)
(* A Python value whose type the code inspects (isinstance, `in`) carries  *)
(* its type in the field py.  A dict is a record; a key the dict lacks is  *)
(* a field the record lacks.                                               *)
(***************************************************************************)
EXTENDS Naturals, Sequences, FiniteSets, TLC

VARIABLES
    policy_document,    \* argument of the evaluator under test
    user_arn,           \* argument of get_role_permission
    called,             \* the evaluator has returned
    ret,                \* its return value
    mode,               \* args.mode
    arg_role,           \* args.role
    pc,                 \* position of main
    roles,              \* the account's roles, as list_roles pages them
    permisive_roles,    \* result of get_permisive_roles
    idx,                \* position of the for loop of role_chaning_check
    role_chaining_found,
    assumable_roles,
    role_chain_creds,   \* what role_chaning_check returned
    stdout,             \* messages printed, in order
    api,                \* provider and file-system calls made, in order
    exit_code           \* process exit status, once pc = "exit"

evalVars == <<policy_document, user_arn, called, ret>>
runVars == <<mode, arg_role, pc, roles, permisive_roles, idx, role_chaining_found,
             assumable_roles, role_chain_creds, stdout, api, exit_code>>
vars == <<policy_document, user_arn, called, ret, mode, arg_role, pc, roles,
          permisive_roles, idx, role_chaining_found, assumable_roles,
          role_chain_creds, stdout, api, exit_code>>

----------------------------------------------------------------------------
(* Bounds *)

MaxStatements == 2
MaxPrincipals == 2
MaxActions == 2
MaxRoles == 2
MaxPolicies == 2

----------------------------------------------------------------------------
(* Python values *)

PyStr(s) == [py |-> "str", v |-> s]
PyList(l) == [py |-> "list", v |-> l]

\* dict.get(key, default)
Get(d, key, default) == IF key \in DOMAIN d THEN d[key] ELSE default

\* s occurs in t as a contiguous run: Python's `s in t` for two strings
IsSubstring(s, t) ==
    \E i \in 0..Len(t) : i + Len(s) <= Len(t) /\ SubSeq(t, i + 1, i + Len(s)) = s

\* Python's `x in c` for a string x: substring of a str, element of a list
PyIn(x, c) ==
    IF c.py = "str" THEN IsSubstring(x, c.v)
    ELSE \E i \in DOMAIN c.v : c.v[i] = x

SeqsUpTo(S, n) == UNION {[1..k -> S] : k \in 0..n}

----------------------------------------------------------------------------
(* Trust-policy evaluator, lines 53-61 *)

WrapIfStr_Missing(principal_arns) == principal_arns

\* lines 57-58: a single string becomes a one-element list
WrapIfStr(principal_arns) ==
    IF principal_arns.py = "str" THEN PyList(<<principal_arns.v>>) ELSE principal_arns

\* lines 55-60: the body of the loop for one statement
StatementTrusts(statement, arn) ==
    /\ Get(statement, "Effect", "None") = "Allow"
    /\ "Principal" \in DOMAIN statement
    /\ PyIn(arn, WrapIfStr(Get(statement.Principal, "AWS", PyList(<<>>))))

RECURSIVE TrustLoop(_, _, _)
TrustLoop(statements, k, arn) ==
    IF k > Len(statements) THEN FALSE
    ELSE IF StatementTrusts(statements[k], arn) THEN TRUE
    ELSE TrustLoop(statements, k + 1, arn)

get_role_permission(document, arn) ==
    TrustLoop(Get(document, "Statement", <<>>), 1, arn)

----------------------------------------------------------------------------
(* Permission-policy evaluator, lines 108-112 *)

StsAssumeRole == <<"sts:AssumeRole">>
StsAssumeRoleWithSAML == <<"sts:AssumeRole", "WithSAML">>
AllActions == <<"*">>

\* line 110
StatementAllowsAssumeRole(statement) ==
    /\ Get(statement, "Effect", "None") = "Allow"
    /\ PyIn(StsAssumeRole, Get(statement, "Action", PyList(<<>>)))

RECURSIVE PolicyLoop(_, _)
PolicyLoop(statements, k) ==
    IF k > Len(statements) THEN FALSE
    ELSE IF StatementAllowsAssumeRole(statements[k]) THEN TRUE
    ELSE PolicyLoop(statements, k + 1)

policy_allows_assume_role(document) ==
    PolicyLoop(Get(document, "Statement", <<>>), 1)

----------------------------------------------------------------------------
(* Inputs of the evaluators *)

CallerArn == <<"arn:aws:iam::111:user/bob">>
LongerArn == <<"arn:aws:iam::111:user/bob", "by">>
Arns == {CallerArn, LongerArn}

Effects == {"Allow", "Deny"}

WithEffect(fields) ==
    {fields} \cup {[k \in DOMAIN fields \cup {"Effect"} |->
                        IF k = "Effect" THEN e ELSE fields[k]] : e \in Effects}

PrincipalValues ==
    {PyStr(a) : a \in Arns} \cup {PyList(l) : l \in SeqsUpTo(Arns, MaxPrincipals)}

TrustStatements ==
    UNION {WithEffect(f) :
             f \in {<<>>, [Principal |-> [Service |-> PyStr(<<"ec2.amazonaws.com">>)]]}
                   \cup {[Principal |-> [AWS |-> p]] : p \in PrincipalValues}}

TrustPolicyDocuments ==
    {<<>>} \cup {[Statement |-> s] : s \in SeqsUpTo(TrustStatements, MaxStatements)}

ActionStrings == {StsAssumeRole, StsAssumeRoleWithSAML, AllActions}

ActionValues ==
    {PyStr(a) : a \in ActionStrings} \cup {PyList(l) : l \in SeqsUpTo(ActionStrings, MaxActions)}

PermissionStatements ==
    UNION {WithEffect(f) : f \in {<<>>} \cup {[Action |-> a] : a \in ActionValues}}

PermissionPolicyDocuments ==
    {<<>>} \cup {[Statement |-> s] : s \in SeqsUpTo(PermissionStatements, MaxStatements)}

----------------------------------------------------------------------------
(* The account the run reads *)

None == [kind |-> "None"]
RoleArg(name) == [kind |-> "role", name |-> name]

RoleArn(name) == <<"arn:aws:iam::111:role/", name>>

TrustsCaller ==
    [Statement |-> <<[Effect |-> "Allow", Principal |-> [AWS |-> PyStr(CallerArn)],
                      Action |-> PyStr(StsAssumeRole)]>>]
TrustsService ==
    [Statement |-> <<[Effect |-> "Allow",
                      Principal |-> [Service |-> PyStr(<<"ec2.amazonaws.com">>)],
                      Action |-> PyStr(StsAssumeRole)]>>]
AccountTrustDocuments == {TrustsCaller, TrustsService}

GrantDocument ==
    [Statement |-> <<[Effect |-> "Allow", Action |-> PyList(<<StsAssumeRole>>)]>>]
NoGrantDocument ==
    [Statement |-> <<[Effect |-> "Allow", Action |-> PyList(<<<<"s3:GetObject">>>>)]>>]

\* what fetching a policy's document gives: the document, or an exception
PolicyBodies ==
    {[fetch |-> "ok", PolicyDocument |-> d] : d \in {GrantDocument, NoGrantDocument}}
        \cup {[fetch |-> "error"]}

InlineNames == {<<"chain">>, <<"Team", "PolicyName">>}
ManagedName == <<"AssumeAnyRole">>
ManagedArn == <<"arn:aws:iam::111:policy/", "AssumeAnyRole">>

PolicyCount ==
    LET RECURSIVE Sum(_)
        Sum(k) == IF k = 0 THEN 0
                  ELSE Len(roles[k].inline) + Len(roles[k].attached) + Sum(k - 1)
    IN Sum(Len(roles))

----------------------------------------------------------------------------
(* check_policies, lines 86-96, with its two fetchers, lines 98-106 *)

\* the items the paginator yields: a name string (PolicyNames) or a record
\* with PolicyName and PolicyArn (AttachedPolicies)
Listed(entry, kind) ==
    IF kind = "inline" THEN PyStr(entry.PolicyName)
    ELSE [py |-> "dict", PolicyName |-> entry.PolicyName, PolicyArn |-> entry.PolicyArn]

\* `'PolicyName' in policy`: a substring test on a string, a key test on a dict
HasPolicyName(policy) ==
    IF policy.py = "str" THEN IsSubstring(<<"PolicyName">>, policy.v)
    ELSE "PolicyName" \in DOMAIN policy

\* line 92
PolicyType(policy) == IF HasPolicyName(policy) THEN "inline" ELSE "managed"

\* line 93
PolicyNameOf(policy) == IF policy.py = "str" THEN policy.v ELSE policy.PolicyName

FetchOp(kind) == IF kind = "inline" THEN "get_role_policy" ELSE "get_managed_policy"

ApiCall(op, role, policy, ok) == [op |-> op, role |-> role, policy |-> policy, ok |-> ok]

\* the scan from position k on; acc carries what has happened so far.
\* A fetch that raises ends the scan: nothing in check_policies catches it.
RECURSIVE PolicyScan(_, _, _, _, _)
PolicyScan(role_name, entries, kind, k, acc) ==
    IF k > Len(entries) THEN acc
    ELSE LET policy == Listed(entries[k], kind)
             body == entries[k].body
             call == ApiCall(FetchOp(kind), role_name, PolicyNameOf(policy), body.fetch = "ok")
         IN IF body.fetch # "ok"
            THEN [acc EXCEPT !.raised = TRUE, !.calls = Append(@, call)]
            ELSE IF policy_allows_assume_role(body.PolicyDocument)
            THEN PolicyScan(role_name, entries, kind, k + 1,
                    [acc EXCEPT !.calls = Append(@, call),
                                !.ret = TRUE,
                                !.out = Append(@, [msg |-> "policy_allows",
                                                   label |-> PolicyType(policy),
                                                   policy |-> PolicyNameOf(policy),
                                                   role |-> role_name])])
            ELSE PolicyScan(role_name, entries, kind, k + 1,
                    [acc EXCEPT !.calls = Append(@, call)])

check_policies(role_name, entries, kind) ==
    PolicyScan(role_name, entries, kind, 1,
               [raised |-> FALSE, ret |-> FALSE, out |-> <<>>, calls |-> <<>>])

\* lines 72-73: inline scan `or` managed scan; the second operand is
\* evaluated only when the first is false
GrantCondition(role) ==
    LET inl == check_policies(role.RoleName, role.inline, "inline")
        man == check_policies(role.RoleName, role.attached, "managed")
    IN IF inl.raised \/ inl.ret THEN inl
       ELSE [raised |-> man.raised, ret |-> man.ret,
             out |-> inl.out \o man.out, calls |-> inl.calls \o man.calls]

----------------------------------------------------------------------------
(* assume_user_role, lines 114-136 *)

AssumeOutcomes(m) ==
    IF m = "automated" THEN {"ok", "denied", "write_error"} ELSE {"ok", "denied"}

assume_user_role(role_name, m, outcome) ==
    IF outcome = "denied"
    THEN [ret |-> None,
          calls |-> <<ApiCall("assume_role", role_name, <<>>, FALSE)>>,
          out |-> <<[msg |-> "error_assuming", role |-> role_name]>>]
    ELSE IF m = "automated"
    THEN IF outcome = "write_error"
         THEN [ret |-> None,
               calls |-> <<ApiCall("assume_role", role_name, <<>>, TRUE),
                           ApiCall("write_credentials", role_name, <<>>, FALSE)>>,
               out |-> <<[msg |-> "error_assuming", role |-> role_name]>>]
         ELSE [ret |-> [kind |-> "profile"],
               calls |-> <<ApiCall("assume_role", role_name, <<>>, TRUE),
                           ApiCall("write_credentials", role_name, <<>>, TRUE)>>,
               out |-> <<[msg |-> "saved"]>>]
    ELSE [ret |-> [kind |-> "Credentials", role |-> role_name],
          calls |-> <<ApiCall("assume_role", role_name, <<>>, TRUE)>>,
          out |-> <<>>]

----------------------------------------------------------------------------
(* The run of main, lines 143-172 *)

RunIdle ==
    /\ mode = "discovery"
    /\ arg_role = None
    /\ pc = "exit"
    /\ roles = <<>>
    /\ permisive_roles = <<>>
    /\ idx = 1
    /\ role_chaining_found = FALSE
    /\ assumable_roles = <<>>
    /\ role_chain_creds = None
    /\ stdout = <<>>
    /\ api = <<>>
    /\ exit_code = 0

Init ==
    /\ policy_document = <<>>
    /\ user_arn = CallerArn
    /\ called = FALSE
    /\ ret = FALSE
    /\ mode \in {"discovery", "automated"}
    /\ arg_role \in {None, RoleArg(1)}
    /\ pc = "get_session"
    /\ roles = <<>>
    /\ permisive_roles = <<>>
    /\ idx = 1
    /\ role_chaining_found = FALSE
    /\ assumable_roles = <<>>
    /\ role_chain_creds = None
    /\ stdout = <<>>
    /\ api = <<>>
    /\ exit_code = 0

Exit(code) == pc' = "exit" /\ exit_code' = code

loopVars == <<permisive_roles, idx, role_chaining_found, assumable_roles, role_chain_creds>>

\* lines 13-18
GetSession ==
    /\ pc = "get_session"
    /\ \E ok \in BOOLEAN :
          IF ok THEN /\ pc' = "authenticate_user"
                     /\ UNCHANGED <<stdout, api, exit_code>>
          ELSE /\ stdout' = Append(stdout, [msg |-> "error_session"])
               /\ api' = Append(api, ApiCall("Session", 0, <<>>, FALSE))
               /\ Exit(1)
    /\ UNCHANGED <<mode, arg_role, roles>>
    /\ UNCHANGED loopVars
    /\ UNCHANGED evalVars

\* lines 20-28
AuthenticateUser ==
    /\ pc = "authenticate_user"
    /\ \E ok \in BOOLEAN :
          /\ api' = Append(api, ApiCall("get_caller_identity", 0, <<>>, ok))
          /\ IF ok THEN /\ stdout' = Append(stdout, [msg |-> "authenticated"])
                        /\ pc' = "dispatch"
                        /\ UNCHANGED exit_code
             ELSE /\ stdout' = Append(stdout, [msg |-> "error_authenticating"])
                  /\ Exit(1)
    /\ UNCHANGED <<mode, arg_role, roles>>
    /\ UNCHANGED loopVars
    /\ UNCHANGED evalVars

\* lines 162-170: parser.error leaves with status 2
Dispatch ==
    /\ pc = "dispatch"
    /\ IF mode = "automated" /\ arg_role = None
       THEN Exit(2)
       ELSE /\ pc' = (IF mode = "discovery" THEN "get_permisive_roles" ELSE "automated")
            /\ UNCHANGED exit_code
    /\ UNCHANGED <<mode, arg_role, roles, stdout, api>>
    /\ UNCHANGED loopVars
    /\ UNCHANGED evalVars

\* lines 170-172
Automated ==
    /\ pc = "automated"
    /\ \E outcome \in AssumeOutcomes(mode) :
          LET hop == assume_user_role(arg_role.name, mode, outcome)
          IN /\ api' = api \o hop.calls
             /\ stdout' = stdout \o hop.out
    /\ Exit(0)
    /\ UNCHANGED <<mode, arg_role, roles>>
    /\ UNCHANGED loopVars
    /\ UNCHANGED evalVars

(* The account as it stands when list_roles is called.  Nothing before that
   call reads it, and nothing changes it afterwards (one snapshot per run). *)

CreateRole ==
    /\ pc = "get_permisive_roles"
    /\ Len(roles) < MaxRoles
    /\ \E d \in AccountTrustDocuments :
          roles' = Append(roles, [RoleName |-> Len(roles) + 1,
                                  Arn |-> RoleArn(Len(roles) + 1),
                                  AssumeRolePolicyDocument |-> d,
                                  inline |-> <<>>,
                                  attached |-> <<>>])
    /\ UNCHANGED <<mode, arg_role, pc, stdout, api, exit_code>>
    /\ UNCHANGED loopVars
    /\ UNCHANGED evalVars

PutRolePolicy ==
    /\ pc = "get_permisive_roles"
    /\ PolicyCount < MaxPolicies
    /\ \E r \in DOMAIN roles, n \in InlineNames, b \in PolicyBodies :
          /\ \A i \in DOMAIN roles[r].inline : roles[r].inline[i].PolicyName # n
          /\ roles' = [roles EXCEPT ![r].inline = Append(@, [PolicyName |-> n, body |-> b])]
    /\ UNCHANGED <<mode, arg_role, pc, stdout, api, exit_code>>
    /\ UNCHANGED loopVars
    /\ UNCHANGED evalVars

AttachRolePolicy ==
    /\ pc = "get_permisive_roles"
    /\ PolicyCount < MaxPolicies
    /\ \E r \in DOMAIN roles, b \in PolicyBodies :
          roles' = [roles EXCEPT ![r].attached =
                        Append(@, [PolicyName |-> ManagedName, PolicyArn |-> ManagedArn,
                                   body |-> b])]
    /\ UNCHANGED <<mode, arg_role, pc, stdout, api, exit_code>>
    /\ UNCHANGED loopVars
    /\ UNCHANGED evalVars

PermisiveFilter_Missing(role, arn) == TRUE

\* line 42
PermisiveFilter(role, arn) == get_role_permission(role.AssumeRolePolicyDocument, arn)

RECURSIVE Permisive(_, _)
Permisive(k, arn) ==
    IF k > Len(roles) THEN <<>>
    ELSE (IF PermisiveFilter(roles[k], arn)
          THEN <<[RoleName |-> roles[k].RoleName, RoleArn |-> roles[k].Arn]>>
          ELSE <<>>) \o Permisive(k + 1, arn)

\* lines 30-51; an exception that is no ClientError is not caught
GetPermisiveRoles ==
    /\ pc = "get_permisive_roles"
    /\ \E outcome \in {"ok", "AccessDenied", "ClientError", "Exception"} :
          /\ api' = Append(api, ApiCall("list_roles", 0, <<>>, outcome = "ok"))
          /\ IF outcome = "ok"
             THEN /\ permisive_roles' = Permisive(1, user_arn)
                  /\ pc' = "role_chaning_check"
                  /\ UNCHANGED <<stdout, exit_code>>
             ELSE /\ stdout' = (IF outcome = "Exception" THEN stdout
                                ELSE Append(stdout, [msg |-> "error_listing"]))
                  /\ Exit(1)
                  /\ UNCHANGED permisive_roles
    /\ UNCHANGED <<mode, arg_role, roles, idx, role_chaining_found, assumable_roles,
                   role_chain_creds>>
    /\ UNCHANGED evalVars

ReturnsAfterHop_OnlyOnSuccess(creds) == creds # None

\* line 79: the return is at the level of the `if` of line 75, not inside it
ReturnsAfterHop(creds) == TRUE

\* lines 68-79: one iteration of the loop
RoleChainingIteration ==
    /\ pc = "role_chaning_check"
    /\ idx <= Len(permisive_roles)
    /\ LET role_name == permisive_roles[idx].RoleName
           cond == GrantCondition(roles[role_name])
       IN IF cond.raised
          THEN /\ api' = api \o cond.calls
               /\ stdout' = stdout \o cond.out
               /\ Exit(1)
               /\ UNCHANGED <<idx, role_chaining_found, assumable_roles, role_chain_creds>>
          ELSE IF cond.ret
          THEN \E outcome \in AssumeOutcomes(mode) :
                  LET hop == assume_user_role(role_name, mode, outcome)
                  IN /\ api' = api \o cond.calls \o hop.calls
                     /\ stdout' = stdout \o cond.out \o hop.out \o
                                    (IF hop.ret # None
                                     THEN <<[msg |-> "assumed", role |-> role_name]>>
                                     ELSE <<>>)
                     /\ assumable_roles' = (IF hop.ret # None
                                            THEN Append(assumable_roles, role_name)
                                            ELSE assumable_roles)
                     /\ role_chaining_found' = (IF hop.ret # None THEN TRUE
                                                ELSE role_chaining_found)
                     /\ IF ReturnsAfterHop(hop.ret)
                        THEN /\ role_chain_creds' = hop.ret
                             /\ pc' = "print_result"
                             /\ UNCHANGED idx
                        ELSE /\ idx' = idx + 1
                             /\ UNCHANGED <<role_chain_creds, pc>>
                     /\ UNCHANGED exit_code
          ELSE /\ api' = api \o cond.calls
               /\ stdout' = stdout \o cond.out
               /\ idx' = idx + 1
               /\ UNCHANGED <<pc, exit_code, role_chaining_found, assumable_roles,
                              role_chain_creds>>
    /\ UNCHANGED <<mode, arg_role, roles, permisive_roles>>
    /\ UNCHANGED evalVars

\* lines 81-84: the loop ran to its end; the function returns None
RoleChainingSummary ==
    /\ pc = "role_chaning_check"
    /\ idx > Len(permisive_roles)
    /\ stdout' = Append(stdout,
                        IF ~role_chaining_found THEN [msg |-> "no_roles_found"]
                        ELSE [msg |-> "roles_that_allow_chaining", names |-> assumable_roles])
    /\ role_chain_creds' = None
    /\ pc' = "print_result"
    /\ UNCHANGED <<mode, arg_role, roles, permisive_roles, idx, role_chaining_found,
                   assumable_roles, api, exit_code>>
    /\ UNCHANGED evalVars

\* line 168, then the normal end of the process
PrintResult ==
    /\ pc = "print_result"
    /\ stdout' = Append(stdout, [msg |-> "json", value |-> role_chain_creds])
    /\ Exit(0)
    /\ UNCHANGED <<mode, arg_role, roles, api>>
    /\ UNCHANGED loopVars
    /\ UNCHANGED evalVars

Next ==
    \/ GetSession
    \/ AuthenticateUser
    \/ Dispatch
    \/ Automated
    \/ CreateRole
    \/ PutRolePolicy
    \/ AttachRolePolicy
    \/ GetPermisiveRoles
    \/ RoleChainingIteration
    \/ RoleChainingSummary
    \/ PrintResult

Spec == Init /\ [][Next]_vars

----------------------------------------------------------------------------
(* Specification of the trust-policy evaluator *)

InitTrust ==
    /\ policy_document \in TrustPolicyDocuments
    /\ user_arn \in Arns
    /\ called = FALSE
    /\ ret = FALSE
    /\ RunIdle

CallGetRolePermission ==
    /\ ~called
    /\ called' = TRUE
    /\ ret' = get_role_permission(policy_document, user_arn)
    /\ UNCHANGED <<policy_document, user_arn>>
    /\ UNCHANGED runVars

NextTrust == CallGetRolePermission

SpecTrust == InitTrust /\ [][NextTrust]_vars

(* Specification of the permission-policy evaluator *)

InitPolicy ==
    /\ policy_document \in PermissionPolicyDocuments
    /\ user_arn = CallerArn
    /\ called = FALSE
    /\ ret = FALSE
    /\ RunIdle

CallPolicyAllowsAssumeRole ==
    /\ ~called
    /\ called' = TRUE
    /\ ret' = policy_allows_assume_role(policy_document)
    /\ UNCHANGED <<policy_document, user_arn>>
    /\ UNCHANGED runVars

NextPolicy == CallPolicyAllowsAssumeRole

SpecPolicy == InitPolicy /\ [][NextPolicy]_vars

----------------------------------------------------------------------------
(* C1: get_role_permission returns true exactly when some statement has    *)
(* Effect = Allow, has a Principal, and the identity is one of that        *)
(* statement's AWS principals; and writing a single-string principal as a  *)
(* one-element list does not change the result.                            *)

AwsPrincipals(statement) ==
    IF "AWS" \in DOMAIN statement.Principal
    THEN LET p == statement.Principal.AWS
         IN IF p.py = "str" THEN {p.v} ELSE {p.v[i] : i \in DOMAIN p.v}
    ELSE {}

TrustAllows(document, arn) ==
    /\ "Statement" \in DOMAIN document
    /\ \E i \in DOMAIN document.Statement :
          LET s == document.Statement[i]
          IN /\ "Effect" \in DOMAIN s
             /\ s.Effect = "Allow"
             /\ "Principal" \in DOMAIN s
             /\ arn \in AwsPrincipals(s)

StatementAsList(s) ==
    IF "Principal" \in DOMAIN s /\ "AWS" \in DOMAIN s.Principal /\ s.Principal.AWS.py = "str"
    THEN [s EXCEPT !.Principal = [AWS |-> PyList(<<s.Principal.AWS.v>>)]]
    ELSE s

DocumentAsList(document) ==
    IF "Statement" \in DOMAIN document
    THEN [Statement |-> [i \in DOMAIN document.Statement |-> StatementAsList(document.Statement[i])]]
    ELSE document

C1_TrustEvaluator ==
    called =>
        /\ ret = TrustAllows(policy_document, user_arn)
        /\ ret = get_role_permission(DocumentAsList(policy_document), user_arn)

SingleStringPrincipal(arn) ==
    /\ "Statement" \in DOMAIN policy_document
    /\ \E i \in DOMAIN policy_document.Statement :
          LET s == policy_document.Statement[i]
          IN /\ "Principal" \in DOMAIN s
             /\ "AWS" \in DOMAIN s.Principal
             /\ s.Principal.AWS = PyStr(arn)
             /\ Get(s, "Effect", "None") = "Allow"

C1_Witness == called /\ ret /\ SingleStringPrincipal(user_arn)

----------------------------------------------------------------------------
(* C2: policy_allows_assume_role returns true exactly when some Allow      *)
(* statement's Action, a string or a list of strings, is or contains       *)
(* exactly sts:AssumeRole or the full wildcard.                            *)

ActionGrants(action) ==
    IF action.py = "str" THEN action.v \in {StsAssumeRole, AllActions}
    ELSE \E i \in DOMAIN action.v : action.v[i] \in {StsAssumeRole, AllActions}

GrantsAssumeRole(document) ==
    /\ "Statement" \in DOMAIN document
    /\ \E i \in DOMAIN document.Statement :
          LET s == document.Statement[i]
          IN /\ "Effect" \in DOMAIN s
             /\ s.Effect = "Allow"
             /\ "Action" \in DOMAIN s
             /\ ActionGrants(s.Action)

C2_PermissionEvaluator == called => ret = GrantsAssumeRole(policy_document)

----------------------------------------------------------------------------
(* Vocabulary of the claims about a discovery run *)

Discovery == mode = "discovery"

Policies(r) ==
    {[kind |-> "inline", entry |-> roles[r].inline[i]] : i \in DOMAIN roles[r].inline}
        \cup {[kind |-> "managed", entry |-> roles[r].attached[i]] : i \in DOMAIN roles[r].attached}

Satisfies(p) ==
    p.entry.body.fetch = "ok" /\ policy_allows_assume_role(p.entry.body.PolicyDocument)

Trusted(r) == get_role_permission(roles[r].AssumeRolePolicyDocument, user_arn)
Granting(r) == \E p \in Policies(r) : Satisfies(p)
Chainable(r) == Trusted(r) /\ Granting(r)

HopCalls == {i \in DOMAIN api : api[i].op = "assume_role"}
FetchCalls == {i \in DOMAIN api : api[i].op \in {"get_role_policy", "get_managed_policy"}}
Attempted(r) == \E i \in HopCalls : api[i].role = r
HopDenied(r) == \E i \in HopCalls : api[i].role = r /\ ~api[i].ok
FetchFailed == \E i \in FetchCalls : ~api[i].ok

Printed == \E i \in DOMAIN stdout : stdout[i].msg = "json"
Finished == pc = "exit" /\ Printed

\* the loop has evaluated the condition of lines 72-73 for the k-th listed role
Decided(k) ==
    /\ k \in DOMAIN permisive_roles
    /\ \/ k < idx
       \/ k = idx /\ (pc = "print_result" \/ Finished)
Reached(r) == \E k \in DOMAIN permisive_roles : permisive_roles[k].RoleName = r /\ Decided(k)

Reported(r, name) ==
    \E i \in DOMAIN stdout :
        stdout[i].msg = "policy_allows" /\ stdout[i].role = r /\ stdout[i].policy = name

----------------------------------------------------------------------------
(* C3: in discovery mode an assume-role call is attempted for a role only  *)
(* if its trust policy allows the current identity and one of its policies *)
(* satisfies policy_allows_assume_role, and it is attempted for every such *)
(* role the loop reaches.                                                  *)

C3_ChainableIffBoth ==
    Discovery =>
        \A r \in DOMAIN roles :
            /\ Attempted(r) => (Trusted(r) /\ Granting(r))
            /\ (Reached(r) /\ Trusted(r) /\ Granting(r)) => Attempted(r)

C3_Witness ==
    /\ Discovery
    /\ pc = "exit"
    /\ \E r, s \in DOMAIN roles :
          /\ ~Trusted(r) /\ Granting(r) /\ ~Attempted(r)
          /\ Trusted(s) /\ Granting(s) /\ Attempted(s)

----------------------------------------------------------------------------
(* C4: the result of a finished discovery run is exactly the set of roles  *)
(* that pass both the trust check and the assume-role-grant check.         *)

DiscoveryResult ==
    {r \in DOMAIN roles : Attempted(r)}
        \cup {assumable_roles[i] : i \in DOMAIN assumable_roles}

C4_ResultIsAllChainable ==
    (Discovery /\ Finished) => DiscoveryResult = {r \in DOMAIN roles : Chainable(r)}

----------------------------------------------------------------------------
(* C5: when the assume-role call for a chainable role fails, every other   *)
(* chainable role has still been attempted by the end of the run.          *)

C5_DeniedHopKeepsSiblings ==
    (Discovery /\ Finished) =>
        \A r \in DOMAIN roles :
            HopDenied(r) => \A s \in DOMAIN roles : Chainable(s) => Attempted(s)

----------------------------------------------------------------------------
(* C6: for every role the loop has classified, every inline and every      *)
(* managed policy of the role that satisfies policy_allows_assume_role has *)
(* been reported.                                                          *)

C6_ClassificationExhaustive ==
    Discovery =>
        \A r \in DOMAIN roles :
            Reached(r) =>
                \A p \in Policies(r) : Satisfies(p) => Reported(r, p.entry.PolicyName)

----------------------------------------------------------------------------
(* C7: a failed fetch of one policy document does not abort the discovery  *)
(* run: the run still ends by printing its result.                         *)

C7_FetchFailureAbsorbed ==
    (Discovery /\ pc = "exit" /\ FetchFailed) => Printed

----------------------------------------------------------------------------
(* C8: the exit status is 1 if an authentication, authorization or         *)
(* provider error, or a failed credential-store write, occurred during the *)
(* run, and 0 otherwise (a usage error of the command line set aside).     *)

ErrorOccurred == \E i \in DOMAIN api : ~api[i].ok
UsageError == mode = "automated" /\ arg_role = None

C8_ExitStatus ==
    (pc = "exit" /\ ~UsageError) => exit_code = (IF ErrorOccurred THEN 1 ELSE 0)

----------------------------------------------------------------------------
(* C9: every reported policy carries its true kind: inline for a policy of *)
(* the role's inline list, managed for one of its attached list.           *)

TrueKind(r, name) ==
    IF \E i \in DOMAIN roles[r].inline : roles[r].inline[i].PolicyName = name
    THEN "inline" ELSE "managed"

C9_ReportedKindIsTrue ==
    \A i \in DOMAIN stdout :
        stdout[i].msg = "policy_allows" =>
            stdout[i].label = TrueKind(stdout[i].role, stdout[i].policy)

----------------------------------------------------------------------------
(* C10: one call of role_chaning_check makes at most one assume-role call, *)
(* for the first listed role that has a granting policy; no policy is      *)
(* fetched after that call; the closing summary is printed only when no    *)
(* assume-role call was made, and it is never the "Roles that allow        *)
(* chaining" one.                                                          *)

SummaryPrinted ==
    \E i \in DOMAIN stdout : stdout[i].msg \in {"no_roles_found", "roles_that_allow_chaining"}

C10_FirstMatchOnly ==
    Discovery =>
        /\ Cardinality(HopCalls) <= 1
        /\ \A k \in DOMAIN permisive_roles :
              Attempted(permisive_roles[k].RoleName) =>
                  \A j \in 1..(k - 1) : ~Granting(permisive_roles[j].RoleName)
        /\ \A i \in HopCalls : \A j \in FetchCalls : j < i
        /\ SummaryPrinted => HopCalls = {}
        /\ \A i \in DOMAIN stdout : stdout[i].msg # "roles_that_allow_chaining"

C10_Witness ==
    /\ Discovery
    /\ pc = "exit"
    /\ Len(permisive_roles) >= 2
    /\ HopDenied(permisive_roles[1].RoleName)
    /\ Granting(permisive_roles[2].RoleName)

====
